---------------------------- MODULE Spec2Model ----------------------------
(***************************************************************************)
(* Model of rhasspy/profiles.py: class Profile.                            *)
(*                                                                         *)
(* Two groups of operations are modelled.                                  *)
(*  - Layer loading: Profile.__init__ / load_profile build the two         *)
(*    settings trees json and system_json from up to three JSON documents  *)
(*    on disk, and Profile.set mutates json.  Trees live in a heap of      *)
(*    dict objects so that sharing between the two trees is observable.    *)
(*  - Path resolution: read_path, read_paths, write_path, write_dir over   *)
(*    a file system of directories and files under the user root, the      *)
(*    system root and the relative fallback directory "profiles".          *)
(***************************************************************************)
EXTENDS Integers, Sequences, FiniteSets, TLC

VARIABLES
    files,         \* the JSON documents on disk: defaults, sysprof, userprof
    layers,        \* Profile.layers
    pc,            \* "new" (not constructed), "ready" (handle built), "failed"
    heap,          \* sequence of dict objects; object id = index
    json,          \* Profile.json: object id, 0 when there is no handle
    system_json,   \* Profile.system_json: object id, 0 when there is no handle
    json_path,     \* Profile.json_path
    system_json0,  \* history: the tree of system_json right after construction
    nsets,         \* number of set() calls made so far
    fs,            \* file system: path -> "none" | "dir" | "file"
    readonly,      \* roots under which nothing new can be created
    call           \* the last path-resolver call and its outcome

vars == <<files, layers, pc, heap, json, system_json, json_path,
          system_json0, nsets, fs, readonly, call>>

loadVars == <<files, layers, pc, heap, json, system_json, json_path,
              system_json0, nsets>>
pathVars == <<fs, readonly, call>>

-----------------------------------------------------------------------------
(* Bounds *)

\* most entries (keys at any depth) of a JSON document on disk
MaxEntries == 2
\* most set() calls in one behaviour
MaxSets == 2
\* most segments of a requested relative path
MaxParts == 2

-----------------------------------------------------------------------------
(* Settings trees as values *)

KeyOrder == <<"a", "b">>
Keys == {KeyOrder[i] : i \in 1..Len(KeyOrder)}
Scalars == {1, 2}
\* the value set() writes: a scalar no document on disk holds
SetValue == 3
\* marks a key whose value is a nested tree
Tree == 0

Front(p) == SubSeq(p, 1, Len(p) - 1)
Last(p) == p[Len(p)]

\* key paths: a top-level key, or a key of a nested tree
KeyPaths == {<<k>> : k \in Keys} \cup {<<k1, k2>> : k1 \in Keys, k2 \in Keys}

\* the keys that hold a nested tree in some document on disk
TreeKeys == {"a"}

\* A document: key path -> scalar or Tree, closed under prefixes.
IsDoc(d) ==
    \A p \in DOMAIN d :
        /\ Len(p) > 1 => (Front(p) \in DOMAIN d /\ d[Front(p)] = Tree)
        /\ d[p] = Tree => (Len(p) = 1 /\ p[1] \in TreeKeys)

Docs ==
    {d \in UNION {[S -> Scalars \cup {Tree}] :
                    S \in {T \in SUBSET KeyPaths : Cardinality(T) <= MaxEntries}} :
        IsDoc(d)}

EmptyDoc == [p \in {} |-> Tree]

Present(d) == [present |-> TRUE, doc |-> d]
Absent == [present |-> FALSE, doc |-> EmptyDoc]

Layers == {"all", "defaults", "profile"}

-----------------------------------------------------------------------------
(* The heap of dict objects *)

Scalar(n) == [k |-> "s", v |-> n]
Ref(id) == [k |-> "r", v |-> id]
EmptyDict == [x \in {} |-> Scalar(0)]

\* pydash.get-like lookup of a key path from object id; Missing when absent
Missing == [k |-> "m", v |-> 0]

RECURSIVE Resolve(_, _, _)
Resolve(h, id, p) ==
    IF Head(p) \notin DOMAIN h[id] THEN Missing
    ELSE LET c == h[id][Head(p)] IN
         IF Len(p) = 1 THEN c
         ELSE IF c.k = "r" THEN Resolve(h, c.v, Tail(p))
         ELSE Missing

\* The tree an object holds, as a value (key path -> scalar or Tree).
View(h, id) ==
    LET dom == {p \in KeyPaths : Resolve(h, id, p) # Missing} IN
    [p \in dom |-> LET c == Resolve(h, id, p) IN IF c.k = "r" THEN Tree ELSE c.v]

\* The only element of a one-element set; {F(x) : x \in {e}} evaluates e once.
Only(S) == CHOOSE x \in S : TRUE

\* position of a key path in the order objects are allocated in: shorter
\* paths first, then by key order
RECURSIVE PathCode(_)
PathCode(p) ==
    IF p = <<>> THEN 0
    ELSE (Len(KeyOrder) + 1) * PathCode(Front(p))
         + (CHOOSE i \in 1..Len(KeyOrder) : KeyOrder[i] = Last(p))

\* json5.load: parse a document into fresh dict objects; the root is the
\* first object allocated.
json5_load(h, d) ==
    LET nodes == {<<>>} \cup {p \in DOMAIN d : d[p] = Tree}
        base == Len(h)
        idx(p) == 1 + Cardinality({q \in nodes : PathCode(q) < PathCode(p)})
        obj(p) == LET ks == {k \in Keys : Append(p, k) \in DOMAIN d} IN
                  [k \in ks |-> IF d[Append(p, k)] = Tree
                                THEN Ref(base + idx(Append(p, k)))
                                ELSE Scalar(d[Append(p, k)])]
        new == [i \in 1..Cardinality(nodes) |->
                   obj(CHOOSE p \in nodes : idx(p) = i)]
    IN [heap |-> h \o new, ref |-> base + 1]

-----------------------------------------------------------------------------
(* rhasspy.utils.recursive_update(base_dict, new_dict): for every key of   *)
(* new_dict, recurse when both sides hold a tree, otherwise store the new  *)
(* value (a nested tree is stored by reference).  ks: keys still to do.    *)

RECURSIVE recursive_update_keys(_, _, _, _)
recursive_update_keys(h, base, new, ks) ==
    IF ks = {} THEN h
    ELSE LET k == CHOOSE x \in ks : TRUE
             v == h[new][k]
             both == /\ v.k = "r"
                     /\ k \in DOMAIN h[base]
                     /\ h[base][k].k = "r"
             h1 == IF both
                   THEN recursive_update_keys(h, h[base][k].v, v.v, DOMAIN h[v.v])
                   ELSE [h EXCEPT ![base] =
                            [x \in DOMAIN h[base] \cup {k} |->
                                IF x = k THEN v ELSE h[base][x]]]
         IN recursive_update_keys(h1, base, new, ks \ {k})

recursive_update(h, base, new) ==
    recursive_update_keys(h, base, new, DOMAIN h[new])

-----------------------------------------------------------------------------
(* Paths.  A path is the sequence of its segments; os.path.join of plain   *)
(* segments appends them, os.path.split(p)[0] drops the last one.          *)

name == "en"
user_profiles_dir == "user"
system_profiles_dir == "system"
BaseDir == "profiles"
profiles_dirs == <<user_profiles_dir, system_profiles_dir>>

Reverse(s) == [i \in 1..Len(s) |-> s[Len(s) + 1 - i]]

join(root, parts) == <<root, name>> \o parts

Min(S) == CHOOSE x \in S : \A y \in S : x <= y
Max(S) == CHOOSE x \in S : \A y \in S : x >= y

\* read_path looking in the system root before the user root
read_path_system_first(existing, parts) ==
    LET hits == {i \in 1..Len(profiles_dirs) :
                    join(profiles_dirs[i], parts) \in existing}
    IN IF hits # {}
       THEN [ret |-> join(profiles_dirs[Max(hits)], parts), raised |-> "none"]
       ELSE IF parts = <<>>
            THEN [ret |-> <<>>, raised |-> "IndexError"]
            ELSE [ret |-> <<BaseDir, name, Last(parts)>>, raised |-> "none"]

\* Profile.read_path; existing: the set of paths os.path.exists accepts
read_path(existing, parts) ==
    LET hits == {i \in 1..Len(profiles_dirs) :
                    join(profiles_dirs[i], parts) \in existing}
    IN IF hits # {}
       THEN [ret |-> join(profiles_dirs[Min(hits)], parts), raised |-> "none"]
       ELSE IF parts = <<>>
            THEN [ret |-> <<>>, raised |-> "IndexError"]
            ELSE [ret |-> <<BaseDir, name, Last(parts)>>, raised |-> "none"]

\* read_paths collecting from the system root before the user root
read_paths_system_first(existing, parts) ==
    LET cands == [i \in 1..Len(profiles_dirs) |->
                     join(Reverse(profiles_dirs)[i], parts)]
        Exists(c) == c \in existing
    IN SelectSeq(cands, Exists)

\* Profile.read_paths
read_paths(existing, parts) ==
    LET cands == [i \in 1..Len(profiles_dirs) |-> join(profiles_dirs[i], parts)]
        Exists(c) == c \in existing
    IN SelectSeq(cands, Exists)

IsPrefix(q, p) == Len(q) <= Len(p) /\ SubSeq(p, 1, Len(q)) = q

\* os.makedirs(p, exist_ok=True) on file system f.  It fails when p or one
\* of its ancestors is a file, or when something has to be created under a
\* root that is read-only; then nothing is created.  Otherwise p and all its
\* missing ancestors become directories.
makedirs(f, ro, p) ==
    LET blocked == \E i \in 1..Len(p) : f[SubSeq(p, 1, i)] = "file"
        missing == {i \in 1..Len(p) : f[SubSeq(p, 1, i)] = "none"}
        ok == ~blocked /\ (missing = {} \/ p[1] \notin ro)
    IN [ok |-> ok,
        fs |-> IF ok
               THEN [q \in DOMAIN f |->
                        IF q # <<>> /\ IsPrefix(q, p) THEN "dir" ELSE f[q]]
               ELSE f]

Outcome(f, f1, ret, raised) ==
    [ret |-> ret, raised |-> raised, fs |-> f1,
     created |-> {q \in DOMAIN f : f[q] = "none" /\ f1[q] # "none"}]

\* Profile.write_path with the loop ignoring makedirs: the path under the
\* first root is returned and nothing is created
write_path_from_nomkdir(f, ro, parts, roots) ==
    IF roots = <<>>
    THEN Outcome(f, f, <<BaseDir, name>> \o parts, "none")
    ELSE Outcome(f, f, join(Head(roots), parts), "none")

\* Profile.write_path: the loop over the roots still to try, then the
\* fallback under BaseDir, whose failure is not caught.
RECURSIVE write_path_from(_, _, _, _)
write_path_from(f, ro, parts, roots) ==
    IF roots = <<>>
    THEN LET full_path == <<BaseDir, name>> \o parts
             m == makedirs(f, ro, Front(full_path))
         IN IF m.ok THEN Outcome(f, m.fs, full_path, "none")
            ELSE Outcome(f, f, <<>>, "OSError")
    ELSE LET full_path == join(Head(roots), parts)
             m == makedirs(f, ro, Front(full_path))
         IN IF m.ok THEN Outcome(f, m.fs, full_path, "none")
            ELSE write_path_from(f, ro, parts, Tail(roots))

write_path(f, ro, parts) == write_path_from(f, ro, parts, profiles_dirs)

\* Profile.write_dir with no try/except around makedirs in the loop
write_dir_from_nocatch(f, ro, parts, roots) ==
    LET dir_path == IF roots = <<>> THEN <<BaseDir, name>> \o parts
                    ELSE join(Head(roots), parts)
        m == makedirs(f, ro, dir_path)
    IN IF m.ok THEN Outcome(f, m.fs, dir_path, "none")
       ELSE Outcome(f, f, <<>>, "OSError")

\* Profile.write_dir: as write_path, but the joined path itself is created.
RECURSIVE write_dir_from(_, _, _, _)
write_dir_from(f, ro, parts, roots) ==
    IF roots = <<>>
    THEN LET dir_path == <<BaseDir, name>> \o parts
             m == makedirs(f, ro, dir_path)
         IN IF m.ok THEN Outcome(f, m.fs, dir_path, "none")
            ELSE Outcome(f, f, <<>>, "OSError")
    ELSE LET dir_path == join(Head(roots), parts)
             m == makedirs(f, ro, dir_path)
         IN IF m.ok THEN Outcome(f, m.fs, dir_path, "none")
            ELSE write_dir_from(f, ro, parts, Tail(roots))

write_dir(f, ro, parts) == write_dir_from(f, ro, parts, profiles_dirs)

\* what os.path.exists accepts on file system f
Existing(f) == {q \in DOMAIN f : f[q] # "none"}

-----------------------------------------------------------------------------
(* Layer loading *)

ProfileFile(root) ==
    IF root = user_profiles_dir THEN files.userprof ELSE files.sysprof

\* what os.path.exists sees of the documents on disk
ExistingFiles ==
    (IF files.defaults.present
     THEN {<<system_profiles_dir, "defaults.json">>} ELSE {})
    \cup {join(r, <<"profile.json">>) :
            r \in {q \in {user_profiles_dir, system_profiles_dir} :
                      ProfileFile(q).present}}

NoHandle == [ok |-> FALSE, heap |-> <<>>, json |-> 0, system_json |-> 0,
             json_path |-> <<>>]

\* line 62: the selectors that load defaults.json
defaults_layers_any == Layers
defaults_layers == {"all", "defaults"}

\* line 79: the selectors that overlay the profile.json files
overlay_layers_any == Layers
overlay_layers == {"all", "profile"}

\* line 81: the order the overlay visits the roots in
overlay_order_forward == profiles_dirs
overlay_order == Reverse(profiles_dirs)

\* line 85: the tree the overlay merges into
overlay_target_system(st) == st.system_json
overlay_target(st) == st.json

\* recursive_update(target, json5.load(file))
merge_file(h, target, d) ==
    Only({recursive_update(ld.heap, target, ld.ref) : ld \in {json5_load(h, d)}})

\* The overlay loop of load_profile: roots still to visit, in visiting order.
RECURSIVE overlay(_, _, _)
overlay(h, target, roots) ==
    IF roots = <<>> THEN h
    ELSE LET r == Head(roots) IN
         IF join(r, <<"profile.json">>) \in ExistingFiles
         THEN Only({overlay(h1, target, Tail(roots)) :
                       h1 \in {merge_file(h, target, ProfileFile(r).doc)}})
         ELSE overlay(h, target, Tail(roots))

\* load_profile, lines 59-67, with one parse shared by both trees
defaults_stage_shared ==
    LET empty == [heap |-> <<EmptyDict, EmptyDict>>, json |-> 1, system_json |-> 2]
    IN IF layers \in defaults_layers
       THEN Only({[heap |-> ld1.heap, json |-> ld1.ref, system_json |-> ld1.ref] :
                     ld1 \in {json5_load(empty.heap, files.defaults.doc)}})
       ELSE [empty EXCEPT !.system_json = 1]

\* load_profile, lines 59-67: both trees empty, or each a parse of defaults.json
defaults_stage ==
    LET empty == [heap |-> <<EmptyDict, EmptyDict>>, json |-> 1, system_json |-> 2]
        second(ld1) ==
            Only({[heap |-> ld2.heap, json |-> ld1.ref, system_json |-> ld2.ref] :
                     ld2 \in {json5_load(ld1.heap, files.defaults.doc)}})
    IN IF layers \in defaults_layers
       THEN Only({second(ld1) :
                     ld1 \in {json5_load(empty.heap, files.defaults.doc)}})
       ELSE empty

\* load_profile, lines 70-75: the system profile.json goes into system_json
system_stage(st) ==
    [st EXCEPT !.heap = merge_file(st.heap, st.system_json, files.sysprof.doc)]

\* load_profile, lines 78-85: json_path, then the overlay of json
overlay_stage(st) ==
    [ok |-> TRUE,
     heap |-> IF layers \in overlay_layers
              THEN overlay(st.heap, overlay_target(st), overlay_order)
              ELSE st.heap,
     json |-> st.json,
     system_json |-> st.system_json,
     json_path |-> read_path(ExistingFiles, <<"profile.json">>).ret]

\* Profile.load_profile, called by Profile.__init__; opening a missing file
\* raises and no handle is built.
load_profile ==
    IF layers \in defaults_layers /\ ~files.defaults.present THEN NoHandle
    ELSE IF ~files.sysprof.present THEN NoHandle
    ELSE Only({overlay_stage(s2) :
                  s2 \in {system_stage(s1) : s1 \in {defaults_stage}}})

\* Profile.__init__
Construct ==
    /\ pc = "new"
    /\ \E r \in {load_profile} :
       /\ pc' = IF r.ok THEN "ready" ELSE "failed"
       /\ heap' = r.heap
       /\ json' = r.json
       /\ system_json' = r.system_json
       /\ json_path' = r.json_path
       /\ system_json0' = IF r.ok THEN View(r.heap, r.system_json) ELSE EmptyDoc
    /\ UNCHANGED <<files, layers, nsets, pathVars>>

\* pydash.set_(obj, path, value) for a key path: walk the path, putting a new
\* empty dict where an intermediate key is missing; an intermediate key that
\* holds a scalar is left alone and nothing is stored.
RECURSIVE set_(_, _, _, _)
set_(h, id, p, value) ==
    LET k == Head(p) IN
    IF Len(p) = 1
    THEN [h EXCEPT ![id] = [x \in DOMAIN h[id] \cup {k} |->
                               IF x = k THEN Scalar(value) ELSE h[id][x]]]
    ELSE IF k \notin DOMAIN h[id]
         THEN LET fresh == Len(h) + 1
                  h1 == Append([h EXCEPT ![id] =
                                   [x \in DOMAIN h[id] \cup {k} |->
                                       IF x = k THEN Ref(fresh) ELSE h[id][x]]],
                               EmptyDict)
              IN set_(h1, fresh, Tail(p), value)
         ELSE IF h[id][k].k = "r"
              THEN set_(h, h[id][k].v, Tail(p), value)
              ELSE h

\* Profile.set
Set(p) ==
    /\ pc = "ready"
    /\ nsets < MaxSets
    /\ heap' = set_(heap, json, p, SetValue)
    /\ nsets' = nsets + 1
    /\ UNCHANGED <<files, layers, pc, json, system_json, json_path,
                   system_json0, pathVars>>

-----------------------------------------------------------------------------
(* Specifications of layer loading *)

NoCall == [op |-> "none", parts |-> <<>>, ret |-> <<>>, rets |-> <<>>,
           raised |-> "none", created |-> {}]
NoFs == [p \in {} |-> "none"]

InitHandle ==
    /\ pc = "new"
    /\ heap = <<>>
    /\ json = 0
    /\ system_json = 0
    /\ json_path = <<>>
    /\ system_json0 = EmptyDoc
    /\ nsets = 0
    /\ fs = NoFs
    /\ readonly = {}
    /\ call = NoCall

\* Any documents on disk, any selector.
Init ==
    /\ files \in [defaults : {Absent} \cup {Present(d) : d \in Docs},
                  sysprof  : {Absent} \cup {Present(d) : d \in Docs},
                  userprof : {Absent} \cup {Present(d) : d \in Docs}]
    /\ layers \in Layers
    /\ InitHandle

Next == Construct

Spec == Init /\ [][Next]_vars

\* defaults.json and the system profile.json each hold one document d or
\* the empty document, the user-root profile.json holds d or is missing;
\* the handle is then built and set() is called.
InitSet ==
    /\ \E d \in Docs :
          files \in [defaults : {Present(d), Present(EmptyDoc)},
                     sysprof  : {Present(d), Present(EmptyDoc)},
                     userprof : {Absent, Present(d)}]
    /\ layers \in Layers
    /\ InitHandle

NextSet ==
    \/ Construct
    \/ \E p \in KeyPaths : Set(p)

SpecSet == InitSet /\ [][NextSet]_vars

-----------------------------------------------------------------------------
(* Recursive merge of two trees as values: every entry of the source is in *)
(* the result; an entry of the destination survives when, at each key on   *)
(* its path that the source also has, both sides hold a tree.              *)

Prefixes(p) == {SubSeq(p, 1, i) : i \in 1..Len(p)}

Survives(A, B, p) ==
    \A q \in Prefixes(p) : q \in DOMAIN B => (A[q] = Tree /\ B[q] = Tree)

MergeTree(A, B) ==
    [p \in DOMAIN B \cup {q \in DOMAIN A : Survives(A, B, q)} |->
        IF p \in DOMAIN B THEN B[p] ELSE A[p]]

DefaultsDoc == files.defaults.doc
SystemDoc == files.sysprof.doc
\* an overlay file that is missing contributes nothing
UserOverlay == IF files.userprof.present THEN files.userprof.doc ELSE EmptyDoc
SystemOverlay == IF files.sysprof.present THEN files.sysprof.doc ELSE EmptyDoc

\* the objects reachable from an object
Reach(h, id) ==
    {id} \cup {Resolve(h, id, p).v : p \in {q \in KeyPaths : Resolve(h, id, q).k = "r"}}

-----------------------------------------------------------------------------
(* Claims about layer loading *)

\* C1: with selector "all" the final tree is
\* defaults (+) system-profile (+) system-root profile.json (+) user-root
\* profile.json, merged left to right, and every entry of the user-root
\* profile.json is in the final tree with the user-root value.
C1_AllLayersMerge ==
    (pc = "ready" /\ layers = "all") =>
        /\ View(heap, json) =
              MergeTree(MergeTree(MergeTree(DefaultsDoc, SystemDoc), SystemOverlay),
                        UserOverlay)
        /\ \A p \in DOMAIN UserOverlay :
              /\ p \in DOMAIN View(heap, json)
              /\ View(heap, json)[p] = UserOverlay[p]

\* C1 witness: all three files set one key to a scalar, each layer changing
\* the value of the layer before, and the handle is built with "all".
C1_Witness ==
    /\ pc = "ready" /\ layers = "all" /\ files.userprof.present
    /\ \E p \in DOMAIN DefaultsDoc \cap DOMAIN SystemDoc \cap DOMAIN UserOverlay :
          /\ DefaultsDoc[p] # Tree /\ SystemDoc[p] # Tree /\ UserOverlay[p] # Tree
          /\ DefaultsDoc[p] # SystemDoc[p] /\ SystemDoc[p] # UserOverlay[p]

\* C2 as stated: with selector "defaults" the final tree equals
\* defaults (+) system-profile.
C2_DefaultsHasSystemMerge ==
    (pc = "ready" /\ layers = "defaults") =>
        View(heap, json) = MergeTree(DefaultsDoc, SystemDoc)

\* C2 amended: with selector "defaults" the final tree equals defaults.json
\* alone: neither the system-profile merge (which goes into system_json
\* only) nor anything of either overlay profile.json is in it.
C2_DefaultsOnly ==
    (pc = "ready" /\ layers = "defaults") => View(heap, json) = DefaultsDoc

\* C2 witness: selector "defaults", both profile.json files present and
\* setting something defaults.json does not.
C2_Witness ==
    /\ pc = "ready" /\ layers = "defaults" /\ files.userprof.present
    /\ MergeTree(DefaultsDoc, SystemDoc) # DefaultsDoc
    /\ MergeTree(DefaultsDoc, UserOverlay) # DefaultsDoc

\* C3: for every selector system_json equals defaults (+) system-profile
\* (defaults empty when the defaults stage is skipped), whatever the
\* user-root profile.json holds and whether or not it exists.
C3_SystemJson ==
    pc = "ready" =>
        View(heap, system_json) =
            MergeTree(IF layers \in {"all", "defaults"} THEN DefaultsDoc ELSE EmptyDoc,
                      SystemDoc)

\* C3 witness: the overlay ran with a user-root profile.json that sets
\* something neither defaults.json nor the system profile.json sets.
C3_Witness ==
    /\ pc = "ready" /\ layers \in {"all", "profile"} /\ files.userprof.present
    /\ \E p \in DOMAIN UserOverlay :
          p \notin DOMAIN DefaultsDoc /\ p \notin DOMAIN SystemDoc

C5_SetLeavesSystemJson ==
    pc = "ready" =>
        /\ View(heap, system_json) = system_json0
        /\ Reach(heap, json) \cap Reach(heap, system_json) = {}

\* C5 witness: two set() calls were made and json now holds the written
\* value at a nested key that system_json holds too.
C5_Witness ==
    /\ pc = "ready" /\ nsets = MaxSets
    /\ \E p \in DOMAIN system_json0 \cap DOMAIN View(heap, json) :
          /\ Len(p) = 2
          /\ View(heap, json)[p] = SetValue

-----------------------------------------------------------------------------
(* Path resolution on a built handle *)

\* segment names; a requested relative path is x, x/y, x/y/z, ... or empty
SegNames == <<"x", "y", "z", "w">>
Parts == {SubSeq(SegNames, 1, j) : j \in 0..MaxParts}

Roots == {user_profiles_dir, system_profiles_dir, BaseDir}
NodePaths == {<<r>> : r \in Roots} \cup {join(r, q) : r \in Roots, q \in Parts}

\* What a root holds at the start: nothing, or one path whose ancestors are
\* directories and which is itself a directory or a file.
NoChain == [at |-> <<>>, kind |-> "none"]
Chains(r) ==
    {NoChain} \cup
    {[at |-> q, kind |-> k] : q \in {n \in NodePaths : n[1] = r}, k \in {"dir", "file"}}

\* the fallback directory starts with no resource paths in it
BaseChains == {c \in Chains(BaseDir) : Len(c.at) <= 2}

FsOfChains(C) ==
    [q \in NodePaths |->
        IF \E c \in C : c.at = q THEN (CHOOSE c \in C : c.at = q).kind
        ELSE IF \E c \in C : IsPrefix(q, c.at) THEN "dir"
        ELSE "none"]

InitPath ==
    /\ files = [defaults |-> Present(EmptyDoc), sysprof |-> Present(EmptyDoc),
                userprof |-> Absent]
    /\ layers = "all"
    /\ pc = "ready"
    /\ heap = load_profile.heap
    /\ json = load_profile.json
    /\ system_json = load_profile.system_json
    /\ json_path = load_profile.json_path
    /\ system_json0 = EmptyDoc
    /\ nsets = 0
    /\ \E cu \in Chains(user_profiles_dir), cs \in Chains(system_profiles_dir),
          cb \in BaseChains :
          fs = FsOfChains({cu, cs, cb})
    /\ readonly \in SUBSET Roots
    /\ call = NoCall

ReadPath(parts) ==
    /\ call = NoCall
    /\ \E r \in {read_path(Existing(fs), parts)} :
          call' = [op |-> "read_path", parts |-> parts, ret |-> r.ret,
                   rets |-> <<>>, raised |-> r.raised, created |-> {}]
    /\ UNCHANGED <<fs, readonly, loadVars>>

ReadPaths(parts) ==
    /\ call = NoCall
    /\ call' = [op |-> "read_paths", parts |-> parts, ret |-> <<>>,
                rets |-> read_paths(Existing(fs), parts), raised |-> "none",
                created |-> {}]
    /\ UNCHANGED <<fs, readonly, loadVars>>

WritePath(parts) ==
    /\ call = NoCall
    /\ \E r \in {write_path(fs, readonly, parts)} :
          /\ call' = [op |-> "write_path", parts |-> parts, ret |-> r.ret,
                      rets |-> <<>>, raised |-> r.raised, created |-> r.created]
          /\ fs' = r.fs
    /\ UNCHANGED <<readonly, loadVars>>

WriteDir(parts) ==
    /\ call = NoCall
    /\ \E r \in {write_dir(fs, readonly, parts)} :
          /\ call' = [op |-> "write_dir", parts |-> parts, ret |-> r.ret,
                      rets |-> <<>>, raised |-> r.raised, created |-> r.created]
          /\ fs' = r.fs
    /\ UNCHANGED <<readonly, loadVars>>

\* the caller takes the result; the handle is ready for the next call
Return ==
    /\ call # NoCall
    /\ call' = NoCall
    /\ UNCHANGED <<fs, readonly, loadVars>>

NextPath ==
    \/ \E parts \in Parts : ReadPath(parts)
    \/ \E parts \in Parts : ReadPaths(parts)
    \/ \E parts \in Parts : WritePath(parts)
    \/ \E parts \in Parts : WriteDir(parts)
    \/ Return

SpecPath == InitPath /\ [][NextPath]_vars

-----------------------------------------------------------------------------
(* Claims about path resolution *)

UserPath(parts) == <<user_profiles_dir, name>> \o parts
SystemPath(parts) == <<system_profiles_dir, name>> \o parts
FallbackPath(parts) == <<BaseDir, name>> \o parts

\* C6: read_path returns the user-root path whenever it exists, and the
\* system-root path only when the user-root path does not exist and the
\* system-root path does.
C6_ReadPrecedence ==
    call.op = "read_path" =>
        LET u == UserPath(call.parts)
            y == SystemPath(call.parts)
        IN /\ fs[u] # "none" => (call.ret = u /\ call.raised = "none")
           /\ (fs[u] = "none" /\ fs[y] # "none") =>
                 (call.ret = y /\ call.raised = "none")
           /\ call.ret = y => (fs[u] = "none" /\ fs[y] # "none")

\* C6 witness: the requested path exists under both roots and read_path
\* returned the user-root path.
C6_Witness ==
    /\ call.op = "read_path" /\ call.parts # <<>>
    /\ fs[UserPath(call.parts)] # "none"
    /\ fs[SystemPath(call.parts)] # "none"
    /\ call.ret = UserPath(call.parts)

C8_ReadAll ==
    call.op = "read_paths" =>
        LET u == UserPath(call.parts)
            y == SystemPath(call.parts)
        IN /\ call.raised = "none"
           /\ call.rets =
                 (IF fs[u] # "none" THEN <<u>> ELSE <<>>)
                 \o (IF fs[y] # "none" THEN <<y>> ELSE <<>>)

\* C8 witness: the path exists under both roots and two paths came back.
C8_Witness ==
    /\ call.op = "read_paths"
    /\ fs[UserPath(call.parts)] # "none"
    /\ fs[SystemPath(call.parts)] # "none"
    /\ Len(call.rets) = 2

\* C9: when write_path returns, every ancestor directory of the returned
\* path exists, the returned path itself is as it was, nothing else
\* changed, the user-root path is returned whenever its directory can be
\* made, and the system-root path only when the user root failed.
C9_WritePath ==
    [][(call'.op = "write_path" /\ call'.raised = "none") =>
         LET parts == call'.parts
             ret == call'.ret
             userOk == makedirs(fs, readonly, Front(UserPath(parts))).ok
             systemOk == makedirs(fs, readonly, Front(SystemPath(parts))).ok
         IN /\ ret \in {UserPath(parts), SystemPath(parts), FallbackPath(parts)}
            /\ \A q \in Prefixes(Front(ret)) : fs'[q] = "dir"
            /\ fs'[ret] = fs[ret]
            /\ \A q \in DOMAIN fs : q \notin Prefixes(Front(ret)) => fs'[q] = fs[q]
            /\ userOk => ret = UserPath(parts)
            /\ ret = SystemPath(parts) => (~userOk /\ systemOk)
            /\ ret = FallbackPath(parts) => (~userOk /\ ~systemOk)
      ]_vars

\* C9 witness: the user root failed, write_path returned the system-root
\* path for a nested request and made at least two directories for it.
C9_Witness ==
    /\ call.op = "write_path" /\ call.raised = "none"
    /\ Len(call.parts) = 2
    /\ call.ret = SystemPath(call.parts)
    /\ Cardinality(call.created) >= 2
    /\ fs[Front(call.ret)] = "dir"

\* C10: write_path and write_dir raise exactly when directory creation
\* fails under the user root, under the system root and under the fallback
\* directory; a failure at a configured root alone never reaches the caller.
C10_WriteFailure ==
    [][call'.op \in {"write_path", "write_dir"} =>
         LET parts == call'.parts
             Target(full) == IF call'.op = "write_path" THEN Front(full) ELSE full
             Fails(full) == ~makedirs(fs, readonly, Target(full)).ok
         IN /\ call'.raised # "none" <=>
                  /\ Fails(UserPath(parts))
                  /\ Fails(SystemPath(parts))
                  /\ Fails(FallbackPath(parts))
            /\ call'.raised # "none" => fs' = fs
      ]_vars

\* C10 witness: both configured roots failed and write_dir returned the
\* fallback directory, which it created.
C10_Witness ==
    /\ call.op = "write_dir" /\ call.raised = "none"
    /\ call.ret = FallbackPath(call.parts)
    /\ call.created # {}

=============================================================================
